---- MODULE Spec2Model ----
(***************************************************************************)
(* SheetManager (src/SheetManager.ts): a client of the remote Sheets and   *)
(* Drive services.  The remote spreadsheet and the remote file store are   *)
(* part of the state; every await of the source is a step, so that the     *)
(* entries of one addSheetValues call and the permission requests of one   *)
(* createNewDocument call interleave as Promise.all lets them.             *)
(***************************************************************************)
EXTENDS Integers, Sequences, FiniteSets, TLC

\* Entries dispatched by addSheetValues over one run (in one call or in
\* successive calls).
MaxEntries == 2
\* Longest permissions sequence handed to createNewDocument.
MaxPermissions == 2
\* Sheets of a document that the read operations are run against.
MaxReadSheets == 2
\* getAuth calls made on one instance by the callers that hold it.
MaxGetAuth == 2

VARIABLES
    sheets,     \* remote spreadsheet: its ordered sheet list (<<>>: no document yet)
    file,       \* remote Drive file of the document (None before files.create)
    create,     \* the createNewDocument call
    entries,    \* the async callbacks of addSheetValues, one per entry of `values`
    read,       \* the read operation in progress
    manager     \* the SheetManager instances, one per credentials

vars == <<sheets, file, create, entries, read, manager>>

----------------------------------------------------------------------------
\* Optional values (undefined / a value).
None == <<>>
Some(x) == <<x>>
IsSome(o) == Len(o) = 1
Get(o) == o[1]

Max(a, b) == IF a >= b THEN a ELSE b
Range(s) == {s[k] : k \in DOMAIN s}

\* Cell values: string | number | boolean, and the empty cell of the grid.
Str(s) == [type |-> "string", v |-> s]
Num(s) == [type |-> "number", v |-> s]
Bool(s) == [type |-> "boolean", v |-> s]
EmptyCell == [type |-> "empty", v |-> ""]

----------------------------------------------------------------------------
\* The remote spreadsheet service.

\* Grid of a sheet the service has just created.
NewSheetGrid == [rowCount |-> 1000, columnCount |-> 26]

\* The document files.create leaves behind: one sheet, "Sheet1", sheetId 0.
FreshDocument ==
    << [title |-> "Sheet1", sheetId |-> 0,
        rowCount |-> NewSheetGrid.rowCount, columnCount |-> NewSheetGrid.columnCount,
        data |-> <<>>, validation |-> {}] >>

\* A document that already holds a second, still empty sheet.
ExistingDocument ==
    FreshDocument \o
    << [title |-> "New Sheet", sheetId |-> 1,
        rowCount |-> NewSheetGrid.rowCount, columnCount |-> NewSheetGrid.columnCount,
        data |-> <<>>, validation |-> {}] >>

Titles(ss) == [k \in DOMAIN ss |-> ss[k].title]

\* Array.prototype.findIndex over titles, 0-based, -1 when there is none.
FindIndex(titles, name) ==
    IF \E k \in DOMAIN titles : titles[k] = name
    THEN (CHOOSE k \in DOMAIN titles :
              /\ titles[k] = name
              /\ \A j \in 1..(k - 1) : titles[j] /= name) - 1
    ELSE -1

NextSheetId(ss) ==
    1 + (CHOOSE m \in {ss[k].sheetId : k \in DOMAIN ss} :
             \A k \in DOMAIN ss : ss[k].sheetId <= m)

\* batchUpdate {addSheet}: a new empty sheet with a sheetId no sheet has.
RemoteAddSheet(ss, title) ==
    Append(ss, [title |-> title, sheetId |-> NextSheetId(ss),
                rowCount |-> NewSheetGrid.rowCount,
                columnCount |-> NewSheetGrid.columnCount,
                data |-> <<>>, validation |-> {}])

\* A row cut to `n` cells.
CutRow(row, n) == IF Len(row) <= n THEN row ELSE SubSeq(row, 1, n)

\* batchUpdate {updateSheetProperties, fields: "gridProperties"}: the sheet
\* gets the grid of the request; cells outside the new grid are gone.
RemoteUpdateGrid(ss, sheetId, grid) ==
    [k \in DOMAIN ss |->
        IF ss[k].sheetId = sheetId
        THEN [ss[k] EXCEPT
                 !.rowCount = grid.rowCount,
                 !.columnCount = grid.columnCount,
                 !.data = [r \in 1..(IF Len(ss[k].data) <= grid.rowCount
                                     THEN Len(ss[k].data) ELSE grid.rowCount) |->
                              CutRow(ss[k].data[r], grid.columnCount)]]
        ELSE ss[k]]

Widest(rows) ==
    IF rows = <<>> THEN 0
    ELSE CHOOSE w \in {Len(rows[r]) : r \in DOMAIN rows} :
             \A r \in DOMAIN rows : Len(rows[r]) <= w

\* values.append on `title`!A1:Z, valueInputOption RAW: the rows go below the
\* last row of the table, the grid grows when they do not fit.
RemoteAppend(ss, title, values) ==
    LET at == FindIndex(Titles(ss), title) + 1 IN
    [k \in DOMAIN ss |->
        IF k = at
        THEN LET data == ss[k].data \o values IN
             [ss[k] EXCEPT
                 !.data = data,
                 !.rowCount = Max(ss[k].rowCount, Len(data)),
                 !.columnCount = Max(ss[k].columnCount, Widest(values))]
        ELSE ss[k]]

\* batchUpdate {setDataValidation ...}: each request replaces the rule of
\* its column on the sheet it names.
RemoteSetDataValidation(ss, requests) ==
    [k \in DOMAIN ss |->
        LET mine == {q \in Range(requests) : q.range.sheetId = ss[k].sheetId} IN
        [ss[k] EXCEPT
            !.validation =
                {v \in ss[k].validation :
                    \A q \in mine : q.range.startColumnIndex /= v.range.startColumnIndex}
                \cup mine]]

----------------------------------------------------------------------------
\* addSheetValues: the payloads.

\* {headers, rows} of the entries handed to addSheetValues: one full row of
\* a string, a number and a boolean; a first row shorter than the headers
\* followed by a row of other types; no rows at all.
Bodies ==
    { [headers |-> <<"a", "b", "c">>,
       rows |-> << <<Str("x"), Num("1"), Bool("TRUE")>> >>],
      [headers |-> <<"a", "b">>,
       rows |-> << <<Str("x")>>, <<Num("2"), Str("y")>> >>],
      [headers |-> <<"a">>,
       rows |-> << >>] }

\* The entries: the first body for the default sheet, every body for a
\* sheet of another name.
Values ==
    { [sheetName |-> "Sheet1", headers |-> b.headers, rows |-> b.rows] :
          b \in {c \in Bodies : Len(c.rows) = 1} }
    \cup
    { [sheetName |-> "New Sheet", headers |-> b.headers, rows |-> b.rows] :
          b \in Bodies }

----------------------------------------------------------------------------
\* addSheetValues: the pure parts of the callback.

\* typeof value.rows[0][index]; `index` is 0-based as in the source.
DataTypeOfLastRow(value, index) ==
    LET row == value.rows[Len(value.rows)] IN
    IF index < Len(row) THEN row[index + 1].type ELSE "undefined"

DataType(value, index) ==
    LET row == value.rows[1] IN
    IF index < Len(row) THEN row[index + 1].type ELSE "undefined"

\* String.fromCharCode(65 + index), as the character code.
ColumnLetter(index) == 65 + index

\* The validation formula of a column: None is the empty string.
ValidationFormula(dataType, columnLetter) ==
    CASE dataType = "string" ->
             Some([fn |-> "ISTEXT", from |-> <<columnLetter, 2>>, to |-> columnLetter])
      [] dataType = "number" ->
             Some([fn |-> "ISNUMBER", from |-> <<columnLetter, 2>>, to |-> columnLetter])
      [] dataType = "boolean" ->
             Some([fn |-> "OR_TRUE_FALSE", from |-> <<columnLetter, 2>>, to |-> columnLetter])
      [] OTHER -> None

\* rule.condition.values is set only when the formula is not empty.
Rule(validationFormula) ==
    [condition |-> [type |-> "CUSTOM_FORMULA", values |-> validationFormula],
     showCustomUi |-> TRUE]

SetDataValidation(value, sheetId, index) ==
    [range |-> [sheetId |-> sheetId,
                startRowIndex |-> 1,
                endRowIndex |-> Len(value.rows) + 1,
                startColumnIndex |-> index,
                endColumnIndex |-> index + 1],
     rule |-> Rule(ValidationFormula(DataType(value, index), ColumnLetter(index)))]

\* value.headers.map(...): one request per header.
Requests(value, sheetId) ==
    [k \in 1..Len(value.headers) |-> SetDataValidation(value, sheetId, k - 1)]

\* value.rows[0][index] with no rows: reading a property of undefined.
RequestsThrow(value) == value.headers /= <<>> /\ value.rows = <<>>

\* x || 0 on an optional number.
OrZero(o) == IF IsSome(o) /\ Get(o) /= 0 THEN Get(o) ELSE 0

\* gridProperties after the two Math.max assignments.
MaxGrid(gridProperties, value) ==
    [rowCount |-> Max(OrZero(gridProperties.rowCount), Len(value.rows) + 1),
     columnCount |-> Max(OrZero(gridProperties.columnCount), Len(value.headers))]

\* gridProperties of the updateSheetProperties request:
\* {...gridProperties, rowCount: value.rows.length + 1, columnCount: value.headers.length}.
UpdateGrid(gridProperties, value) ==
    [gridProperties EXCEPT
        !.rowCount = Len(value.rows) + 1,
        !.columnCount = Len(value.headers)]

\* The response of spreadsheets.get {fields: "sheets(properties)"}; a field
\* the code tests for may be absent from it.
ResponseShapes == {"full", "noSheets", "noSheetId", "noGridProperties"}

SheetProperties(ss, shape) ==
    IF shape = "noSheets" THEN None
    ELSE Some([k \in DOMAIN ss |->
             [title |-> ss[k].title,
              sheetId |-> IF shape = "noSheetId" THEN None ELSE Some(ss[k].sheetId),
              gridProperties |->
                  IF shape = "noGridProperties" THEN None
                  ELSE Some([rowCount |-> Some(ss[k].rowCount),
                             columnCount |-> Some(ss[k].columnCount)])]])

\* The sheet of the response the callback works on (findIndex by title).
SheetIndex(sheetProperties, name) == FindIndex(Titles(Get(sheetProperties)), name)
Found(sheetProperties, name) ==
    Get(sheetProperties)[SheetIndex(sheetProperties, name) + 1]

\* if (!sheetId): an absent sheetId, and the sheetId 0.
NoSheetId(sheetId) == ~(IsSome(sheetId) /\ Get(sheetId) /= 0)

\* What the callback throws once the properties are fetched ("": nothing).
PropertiesError(sheetProperties, name) ==
    IF ~IsSome(sheetProperties) THEN "Sheets is undefined"
    ELSE IF SheetIndex(sheetProperties, name) = -1 THEN "Sheet index is -1"
    ELSE IF NoSheetId(Found(sheetProperties, name).sheetId) THEN "Sheet ID is undefined"
    ELSE IF ~IsSome(Found(sheetProperties, name).gridProperties)
         THEN "Failed to get grid properties"
    ELSE ""

SheetRowCount(ss, name) ==
    IF FindIndex(Titles(ss), name) = -1 THEN None
    ELSE Some(ss[FindIndex(Titles(ss), name) + 1].rowCount)

----------------------------------------------------------------------------
\* addSheetValues: the call and the steps of each callback.  A step is the
\* remote service answering the request the callback awaits, followed by
\* the code of the callback up to its next await.

Entry(call, value, ss) ==
    [call |-> call, value |-> value, pc |-> "addSheets", error |-> "",
     absent |-> FALSE,           \* addSheets found no sheet of that title
     sheetId |-> None,           \* sheetId of the properties response
     fetched |-> None,           \* gridProperties as fetched
     gridProperties |-> None,    \* gridProperties after Math.max
     update |-> None,            \* gridProperties the resize request carries
     requests |-> None,          \* the setDataValidation requests built
     log |-> <<>>,               \* remote requests answered, in order
     before |-> SheetRowCount(ss, value.sheetName),
     after |-> None]

\* A call that never reports a rejected callback.
CallRejectedNever(c) == FALSE

\* await Promise.all rejects: a callback of call c rejected.
CallRejected(c) == \E i \in DOMAIN entries : entries[i].call = c /\ entries[i].pc = "failed"

\* await Promise.all resolves: every callback of call c resolved.
CallResolved(c) ==
    /\ ~CallRejected(c)
    /\ \A i \in DOMAIN entries : entries[i].call = c => entries[i].pc = "done"

\* Promise.all of call c is settled: every callback resolved, or one rejected.
CallSettled(c) == CallResolved(c) \/ CallRejected(c)

LastCall == IF entries = <<>> THEN 0 ELSE entries[Len(entries)].call

\* The callback throws `error` after `request` was answered.
Throw(e, request, error) ==
    [e EXCEPT !.pc = "failed", !.error = error, !.log = Append(@, request)]

\* The remote service rejects `request`: the callback rejects with its error.
Rejected(e, request) == Throw(e, request, "RemoteError")

\* The `values` arrays of a call: one entry, or two.
ValueArrays ==
    {<<v>> : v \in Values} \cup {<<v, w>> : v \in Values, w \in Values}

\* addSheetValues(id, values): values.map starts every callback.
AddSheetValuesOf(arrays) ==
    /\ sheets /= <<>>
    /\ create.pc \in {"idle", "returned"}
    /\ read.pc = "idle"
    /\ CallSettled(LastCall)
    /\ \E values \in arrays :
           /\ Len(entries) + Len(values) <= MaxEntries
           /\ entries' = entries \o
                  [k \in DOMAIN values |-> Entry(LastCall + 1, values[k], sheets)]
    /\ UNCHANGED <<sheets, file, create, read, manager>>

AddSheetValues == AddSheetValuesOf(ValueArrays)

\* addSheets as one transaction: the check and the creation in one step.
AddSheetsGetAtomic(i) ==
    /\ entries[i].pc = "addSheets"
    /\ LET sheetExists == FindIndex(Titles(sheets), entries[i].value.sheetName) /= -1 IN
       /\ sheets' = IF sheetExists THEN sheets
                    ELSE RemoteAddSheet(sheets, entries[i].value.sheetName)
       /\ entries' = [entries EXCEPT ![i] =
              [@ EXCEPT !.pc = "getProperties", !.absent = ~sheetExists,
                        !.log = IF sheetExists THEN <<"get">> ELSE <<"get", "addSheet">>]]
    /\ UNCHANGED <<file, create, read, manager>>

\* addSheets: spreadsheets.get is answered; if (!sheets) throw; sheets.some.
AddSheetsGet(i) ==
    /\ entries[i].pc = "addSheets"
    /\ \E response \in {"sheets", "noSheets", "error"} :
           entries' = [entries EXCEPT ![i] =
               CASE response = "sheets" ->
                        LET sheetExists ==
                                FindIndex(Titles(sheets), @.value.sheetName) /= -1
                        IN [@ EXCEPT !.pc = IF sheetExists THEN "getProperties"
                                            ELSE "addSheet",
                                     !.absent = ~sheetExists,
                                     !.log = Append(@, "get")]
                 [] response = "noSheets" -> Throw(@, "get", "Sheets is undefined")
                 [] OTHER -> Rejected(@, "get")]
    /\ UNCHANGED <<sheets, file, create, read, manager>>

\* addSheets: batchUpdate {addSheet} is answered.  The service refuses a
\* title that a sheet already has.
AddSheet(i) ==
    /\ entries[i].pc = "addSheet"
    /\ \E ok \in BOOLEAN :
           IF ok /\ FindIndex(Titles(sheets), entries[i].value.sheetName) = -1
           THEN /\ sheets' = RemoteAddSheet(sheets, entries[i].value.sheetName)
                /\ entries' = [entries EXCEPT ![i] =
                       [@ EXCEPT !.pc = "getProperties", !.log = Append(@, "addSheet")]]
           ELSE /\ entries' = [entries EXCEPT ![i] = Rejected(@, "addSheet")]
                /\ UNCHANGED sheets
    /\ UNCHANGED <<file, create, read, manager>>

\* The callback once the properties are fetched: one of the four throws,
\* or the Math.max assignments and the resize request.
AfterProperties(e, sheetProperties) ==
    LET name == e.value.sheetName
        error == PropertiesError(sheetProperties, name)
        found == Found(sheetProperties, name)
    IN IF error /= ""
       THEN [Throw(e, "getProperties", error) EXCEPT
                !.sheetId = IF error \in {"Sheets is undefined", "Sheet index is -1"}
                            THEN None ELSE found.sheetId]
       ELSE LET gridProperties == MaxGrid(Get(found.gridProperties), e.value) IN
            [e EXCEPT !.pc = "update",
                      !.sheetId = found.sheetId,
                      !.fetched = found.gridProperties,
                      !.gridProperties = Some(gridProperties),
                      !.update = Some(UpdateGrid(gridProperties, e.value)),
                      !.log = Append(@, "getProperties")]

\* spreadsheets.get {ranges, fields: "sheets(properties)"} is answered.
GetSheetProperties(i) ==
    /\ entries[i].pc = "getProperties"
    /\ \E shape \in ResponseShapes \cup {"error"} :
           entries' = [entries EXCEPT ![i] =
               IF shape = "error" THEN Rejected(@, "getProperties")
               ELSE AfterProperties(@, SheetProperties(sheets, shape))]
    /\ UNCHANGED <<sheets, file, create, read, manager>>

\* A callback that sends its validation requests before it appends.
AfterUpdateValidateFirst(e) ==
    IF RequestsThrow(e.value)
    THEN Throw(e, "updateSheetProperties", "TypeError")
    ELSE [e EXCEPT !.pc = "validate",
                   !.requests = Some(Requests(e.value, Get(e.sheetId))),
                   !.log = Append(@, "updateSheetProperties")]

\* The callback once the grid is resized: value.headers.map builds the
\* requests, a TypeError when there is a header and no row.
AfterUpdate(e) ==
    IF RequestsThrow(e.value)
    THEN Throw(e, "updateSheetProperties", "TypeError")
    ELSE [e EXCEPT !.pc = "append",
                   !.requests = Some(Requests(e.value, Get(e.sheetId))),
                   !.log = Append(@, "updateSheetProperties")]

\* batchUpdate {updateSheetProperties} is answered.
UpdateSheetProperties(i) ==
    /\ entries[i].pc = "update"
    /\ \E ok \in BOOLEAN :
           IF ok
           THEN /\ sheets' = RemoteUpdateGrid(sheets, Get(entries[i].sheetId),
                                              Get(entries[i].update))
                /\ entries' = [entries EXCEPT ![i] = AfterUpdate(@)]
           ELSE /\ entries' = [entries EXCEPT ![i] = Rejected(@, "updateSheetProperties")]
                /\ UNCHANGED sheets
    /\ UNCHANGED <<file, create, read, manager>>

\* requestBody.values: [value.headers, ...value.rows].
AppendBody(value) ==
    <<[k \in DOMAIN value.headers |-> Str(value.headers[k])]>> \o value.rows

\* values.append is answered.
AppendValues(i) ==
    /\ entries[i].pc = "append"
    /\ \E ok \in BOOLEAN :
           IF ok
           THEN /\ sheets' = RemoteAppend(sheets, entries[i].value.sheetName,
                                          AppendBody(entries[i].value))
                /\ entries' = [entries EXCEPT ![i] =
                       [@ EXCEPT !.pc = "validate", !.log = Append(@, "append")]]
           ELSE /\ entries' = [entries EXCEPT ![i] = Rejected(@, "append")]
                /\ UNCHANGED sheets
    /\ UNCHANGED <<file, create, read, manager>>

\* batchUpdate {requests} is answered: the callback resolves.
BatchUpdateValidation(i) ==
    /\ entries[i].pc = "validate"
    /\ \E ok \in BOOLEAN :
           IF ok
           THEN /\ sheets' = RemoteSetDataValidation(sheets, Get(entries[i].requests))
                /\ entries' = [entries EXCEPT ![i] =
                       [@ EXCEPT !.pc = "done",
                                 !.after = SheetRowCount(sheets', entries[i].value.sheetName),
                                 !.log = Append(@, "setDataValidation")]]
           ELSE /\ entries' = [entries EXCEPT ![i] = Rejected(@, "setDataValidation")]
                /\ UNCHANGED sheets
    /\ UNCHANGED <<file, create, read, manager>>

----------------------------------------------------------------------------
\* createNewDocument.

Roles == {"owner", "writer", "reader"}

Permission(role) == [role |-> role, type |-> "user", emailAddress |-> "email@email.com"]

\* The permissions arrays of up to n grants.
PermissionArrays(n) == UNION { [1..k -> {Permission(r) : r \in Roles}] : k \in 0..n }

SpreadsheetMimeType == "application/vnd.google-apps.spreadsheet"

CreateCall(title, permissions) ==
    [pc |-> "start", title |-> title, permissions |-> permissions,
     id |-> None,          \* newSheetDocument.data.id
     requests |-> <<>>,    \* permissions.create requests issued
     status |-> <<>>,      \* of each request: pending, ok, rejected
     error |-> "",
     result |-> None]

NoCreateCall == [CreateCall("", <<>>) EXCEPT !.pc = "idle"]

\* The request permissions.map builds for one grant.
TransferOwnershipAlways(permission) == TRUE

TransferOwnership(permission) == permission.role = "owner"

SendNotificationEmail(permission) == FALSE

PermissionsCreateRequest(id, permission) ==
    [fileId |-> id, requestBody |-> permission,
     transferOwnership |-> TransferOwnership(permission),
     sendNotificationEmail |-> SendNotificationEmail(permission)]

\* driveClient.files.create: the service returns the new file, a response
\* without an id, or an error.
FilesCreate ==
    /\ create.pc = "start"
    /\ \E response \in {"file", "noId", "error"} :
           CASE response = "file" ->
                    /\ file' = Some([id |-> "doc1", name |-> create.title,
                                     mimeType |-> SpreadsheetMimeType])
                    /\ sheets' = FreshDocument
                    /\ create' = [create EXCEPT !.pc = "created", !.id = Some("doc1")]
             [] response = "noId" ->
                    /\ create' = [create EXCEPT !.pc = "created"]
                    /\ UNCHANGED <<file, sheets>>
             [] OTHER ->
                    /\ create' = [create EXCEPT !.pc = "failed", !.error = "RemoteError"]
                    /\ UNCHANGED <<file, sheets>>
    /\ UNCHANGED <<entries, read, manager>>

\* createNewDocument without its check of the id.
CreateWithoutId ==
    /\ create.pc = "created"
    /\ ~IsSome(create.id)
    /\ create' = [create EXCEPT
           !.pc = "granting",
           !.requests = [k \in DOMAIN create.permissions |->
                            PermissionsCreateRequest("undefined", create.permissions[k])],
           !.status = [k \in DOMAIN create.permissions |-> "pending"]]
    /\ UNCHANGED <<sheets, file, entries, read, manager>>

\* if (!newSheetDocument?.data.id) throw new Error("Document id is undefined").
CreateThrow ==
    /\ create.pc = "created"
    /\ ~IsSome(create.id)
    /\ create' = [create EXCEPT !.pc = "failed", !.error = "Document id is undefined"]
    /\ UNCHANGED <<sheets, file, entries, read, manager>>

\* permissions.map(async ...): every callback runs up to its await, so
\* every permissions.create request is issued before any is answered.
PermissionsMap ==
    /\ create.pc = "created"
    /\ IsSome(create.id)
    /\ create' = [create EXCEPT
           !.pc = "granting",
           !.requests = [k \in DOMAIN create.permissions |->
                            PermissionsCreateRequest(Get(create.id), create.permissions[k])],
           !.status = [k \in DOMAIN create.permissions |-> "pending"]]
    /\ UNCHANGED <<sheets, file, entries, read, manager>>

\* One permissions.create is answered; Promise.all rejects on the first
\* rejection, the other requests stay in flight.
PermissionsCreate(k) ==
    /\ create.pc \in {"granting", "failed"}
    /\ k \in DOMAIN create.status
    /\ create.status[k] = "pending"
    /\ \E ok \in BOOLEAN :
           create' = [create EXCEPT
               !.status[k] = IF ok THEN "ok" ELSE "rejected",
               !.pc = IF ok THEN @ ELSE "failed",
               !.error = IF ok \/ @ /= "" THEN @ ELSE "RemoteError"]
    /\ UNCHANGED <<sheets, file, entries, read, manager>>

\* return newSheetDocument?.data.
CreateReturn ==
    /\ create.pc = "granting"
    /\ \A k \in DOMAIN create.status : create.status[k] = "ok"
    /\ create' = [create EXCEPT !.pc = "returned", !.result = file]
    /\ UNCHANGED <<sheets, file, entries, read, manager>>

----------------------------------------------------------------------------
\* The remote service: spreadsheets.values.get.

\* A cell as FORMATTED_VALUE (the default) renders it: always a string.
Render(cell, unformatted) ==
    IF unformatted \/ cell = EmptyCell THEN cell ELSE Str(cell.v)

\* Cells of a row up to its last cell that is not empty.
TrimRow(row) ==
    LET filled == {c \in DOMAIN row : row[c] /= EmptyCell} IN
    IF filled = {} THEN <<>>
    ELSE SubSeq(row, 1, CHOOSE c \in filled : \A d \in filled : d <= c)

\* Rows of a matrix up to its last row that is not empty.
TrimRows(rows) ==
    LET filled == {r \in DOMAIN rows : rows[r] /= <<>>} IN
    IF filled = {} THEN <<>>
    ELSE SubSeq(rows, 1, CHOOSE r \in filled : \A q \in filled : q <= r)

\* The column number of a column in A1 notation.
ColumnNumber(col) ==
    CASE col = "A" -> 1
      [] col = "B" -> 2
      [] col = "Z" -> 26
      [] col = "AA" -> 27

\* The cells of rows r1..r2, columns c1..c2 (None: to the end), trailing
\* empty cells and rows left out; `values` is absent when nothing is left.
ValuesGet(sheet, r1, r2, c1, c2, unformatted) ==
    LET lastRow == IF IsSome(r2) /\ Get(r2) <= Len(sheet.data) THEN Get(r2)
                   ELSE Len(sheet.data)
        Cells(r) ==
            LET row == sheet.data[r]
                lastCol == IF IsSome(c2) /\ Get(c2) <= Len(row) THEN Get(c2)
                           ELSE Len(row)
            IN TrimRow([c \in 1..(IF lastCol >= c1 THEN lastCol - c1 + 1 ELSE 0) |->
                           Render(row[c1 + c - 1], unformatted)])
        rows == TrimRows([r \in 1..(IF lastRow >= r1 THEN lastRow - r1 + 1 ELSE 0) |->
                             Cells(r1 + r - 1)])
    IN IF rows = <<>> THEN None ELSE Some(rows)

----------------------------------------------------------------------------
\* The read operations: getSheetnameByIndex, getSheetValues,
\* getSheetHeaders, getSheetValuesByFilter.

ReadOperations ==
    {"getSheetnameByIndex", "getSheetValues", "getSheetHeaders", "getSheetValuesByFilter"}

Columns == {"A", "B", "AA"}
Filters == {"x", "1", "k", "zz"}

ReadCall(op, sheetIndex, col, filter) ==
    [pc |-> "name", op |-> op, sheetIndex |-> sheetIndex, col |-> col, filter |-> filter,
     metadata |-> None,    \* titles of the sheet list getSheetnameByIndex fetched
     sheetName |-> None,
     row |-> -1,           \* findIndex of the filter in the column
     log |-> <<>>,         \* values.get requests answered
     error |-> "",
     result |-> None]      \* what the operation returned (None: undefined)

NoRead == [ReadCall("", 0, "", "") EXCEPT !.pc = "idle"]

\* A read operation is called.
Read ==
    /\ read.pc \in {"idle", "returned", "failed"}
    /\ sheets /= <<>>
    /\ \E op \in ReadOperations, sheetIndex \in -1..MaxReadSheets :
           IF op = "getSheetValuesByFilter"
           THEN \E col \in Columns, filter \in Filters :
                    read' = ReadCall(op, sheetIndex, col, filter)
           ELSE read' = ReadCall(op, sheetIndex, "", "")
    /\ UNCHANGED <<sheets, file, create, entries, manager>>

\* sheetInfo?.data.sheets?.[sheetIndex].properties?.title: undefined when
\* there is no sheet list; a TypeError when the list has no such element.
SheetnameByIndexChecked(titles, sheetIndex) ==
    IF IsSome(titles) /\ sheetIndex >= 0 /\ sheetIndex < Len(Get(titles))
    THEN [error |-> "", title |-> Some(Get(titles)[sheetIndex + 1])]
    ELSE [error |-> "", title |-> None]

SheetnameByIndex(titles, sheetIndex) ==
    IF ~IsSome(titles) THEN [error |-> "", title |-> None]
    ELSE IF sheetIndex < 0 \/ sheetIndex >= Len(Get(titles))
         THEN [error |-> "TypeError", title |-> None]
    ELSE [error |-> "", title |-> Some(Get(titles)[sheetIndex + 1])]

\* The caller of getSheetnameByIndex once it has the name.
AfterSheetname(r, titles) ==
    LET got == SheetnameByIndex(titles, r.sheetIndex)
        named == [r EXCEPT !.metadata = titles, !.sheetName = got.title]
    IN IF got.error /= ""
       THEN [named EXCEPT !.pc = "failed", !.error = got.error]
       ELSE CASE r.op = "getSheetnameByIndex" ->
                     [named EXCEPT !.pc = "returned", !.result = got.title]
              [] r.op = "getSheetValues" ->
                     [named EXCEPT !.pc = "values"]
              [] OTHER ->
                     \* if (!sheetName) return undefined
                     IF ~IsSome(got.title) THEN [named EXCEPT !.pc = "returned"]
                     ELSE [named EXCEPT !.pc = IF r.op = "getSheetHeaders" THEN "headers"
                                               ELSE "column"]

\* getSheetnameByIndex: spreadsheets.get is answered.
GetSheetnameByIndex ==
    /\ read.pc = "name"
    /\ \E response \in {"sheets", "noSheets", "error"} :
           read' = CASE response = "sheets" -> AfterSheetname(read, Some(Titles(sheets)))
                     [] response = "noSheets" -> AfterSheetname(read, None)
                     [] OTHER -> [read EXCEPT !.pc = "failed", !.error = "RemoteError"]
    /\ UNCHANGED <<sheets, file, create, entries, manager>>

\* The sheet a range names; `${sheetName}` of an undefined name names none.
SheetNamed(name) ==
    IF IsSome(name) /\ FindIndex(Titles(sheets), Get(name)) /= -1
    THEN Some(sheets[FindIndex(Titles(sheets), Get(name)) + 1])
    ELSE None

ReadRejected(r, request) ==
    [r EXCEPT !.pc = "failed", !.error = "RemoteError", !.log = Append(@, request)]

\* getSheetValues: values.get `${sheetName}!A1:Z`, UNFORMATTED_VALUE;
\* returns res?.data.
GetSheetValues ==
    /\ read.pc = "values"
    /\ \E ok \in BOOLEAN :
           read' = IF ok /\ IsSome(SheetNamed(read.sheetName))
                   THEN [read EXCEPT
                            !.pc = "returned",
                            !.log = Append(@, "A1:Z"),
                            !.result = Some([values |->
                                ValuesGet(Get(SheetNamed(read.sheetName)),
                                          1, None, 1, Some(ColumnNumber("Z")), TRUE)])]
                   ELSE ReadRejected(read, "A1:Z")
    /\ UNCHANGED <<sheets, file, create, entries, manager>>

\* getSheetHeaders: values.get `${sheetName}!1:1`;
\* returns res?.data.values?.[0] ?? [].
GetSheetHeaders ==
    /\ read.pc = "headers"
    /\ \E ok \in BOOLEAN :
           read' = IF ok /\ IsSome(SheetNamed(read.sheetName))
                   THEN LET values == ValuesGet(Get(SheetNamed(read.sheetName)),
                                                1, Some(1), 1, None, FALSE)
                        IN [read EXCEPT
                               !.pc = "returned",
                               !.log = Append(@, "1:1"),
                               !.result = IF IsSome(values) THEN Some(Get(values)[1])
                                          ELSE Some(<<>>)]
                   ELSE ReadRejected(read, "1:1")
    /\ UNCHANGED <<sheets, file, create, entries, manager>>

\* colValues.findIndex((row) => row[0] === filter), 0-based.
FilterIndex(colValues, filter) ==
    LET hits == {k \in DOMAIN colValues :
                    colValues[k] /= <<>> /\ colValues[k][1] = Str(filter)}
    IN IF hits = {} THEN -1
       ELSE (CHOOSE k \in hits : \A j \in hits : k <= j) - 1

\* getSheetValuesByFilter: values.get `${sheetName}!${col}:${col}`,
\* UNFORMATTED_VALUE, is answered; the scan for the filter.
GetColumn ==
    /\ read.pc = "column"
    /\ \E ok \in BOOLEAN :
           read' = IF ok /\ IsSome(SheetNamed(read.sheetName))
                   THEN LET colValues ==
                                ValuesGet(Get(SheetNamed(read.sheetName)), 1, None,
                                          ColumnNumber(read.col),
                                          Some(ColumnNumber(read.col)), TRUE)
                            row == IF IsSome(colValues)
                                   THEN FilterIndex(Get(colValues), read.filter) ELSE -1
                        IN IF row = -1
                           THEN \* if (!colValues) return []; if (row === -1) return []
                                [read EXCEPT !.pc = "returned",
                                             !.log = Append(@, "col:col"),
                                             !.result = Some(<<>>)]
                           ELSE [read EXCEPT !.pc = "row", !.row = row,
                                             !.log = Append(@, "col:col")]
                   ELSE ReadRejected(read, "col:col")
    /\ UNCHANGED <<sheets, file, create, entries, manager>>

\* getSheetValuesByFilter: values.get `${sheetName}!A${row + 1}:Z${row + 1}`
\* is answered; returns rowRes?.data.values.
GetRow ==
    /\ read.pc = "row"
    /\ \E ok \in BOOLEAN :
           read' = IF ok /\ IsSome(SheetNamed(read.sheetName))
                   THEN [read EXCEPT
                            !.pc = "returned",
                            !.log = Append(@, "Arow:Zrow"),
                            !.result = ValuesGet(Get(SheetNamed(read.sheetName)),
                                                 read.row + 1, Some(read.row + 1),
                                                 1, Some(ColumnNumber("Z")), FALSE)]
                   ELSE ReadRejected(read, "Arow:Zrow")
    /\ UNCHANGED <<sheets, file, create, entries, manager>>

\* The sheets the read operations are run against: the empty default
\* sheet, a sheet of headers and rows as addSheetValues appends them (the
\* filter "x" is in column A twice, below and above an empty row), and a
\* sheet whose only data cell is in column AA.
ReadSheets ==
    { FreshDocument[1],
      [title |-> "New Sheet", sheetId |-> 1, rowCount |-> 5, columnCount |-> 3,
       data |-> << <<Str("a"), Str("b"), Str("c")>>,
                   <<Str("x"), Num("1"), Bool("TRUE")>>,
                   <<>>,
                   <<Str("x"), Num("2"), Bool("FALSE")>>,
                   <<Num("1"), Str("k")>> >>,
       validation |-> {}],
      [title |-> "Wide", sheetId |-> 2, rowCount |-> 1000, columnCount |-> 27,
       data |-> << <<Str("a")>>,
                   [c \in 1..27 |-> IF c = 27 THEN Str("k") ELSE EmptyCell] >>,
       validation |-> {}] }

\* Documents of up to n of these sheets, in any order.
ReadDocuments(n) ==
    { d \in UNION { [1..k -> ReadSheets] : k \in 1..n } :
          \A i, j \in DOMAIN d : i /= j => d[i] /= d[j] }

----------------------------------------------------------------------------
\* getInstance and getAuth.  The constructor is private: an instance comes
\* from getInstance only, and callers hold it once getInstance has resolved.

Credentials == {"c1", "c2"}

\* No instance yet for these credentials.
NoManager ==
    [pc |-> "none",        \* none, bootstrap (getInstance awaits getAuth), ready, failed
     auth |-> None,        \* this.auth
     clients |-> None,     \* auth the driveClient and sheetClient are bound to
     derived |-> 0,        \* google.auth.getClient invocations
     awaiting |-> 0,       \* getAuth calls awaiting their getClient
     returned |-> <<>>,    \* what the getAuth calls returned, in order
     error |-> ""]

\* The client object the n-th getClient of an instance resolves to.
Session(credentials, n) == [credentials |-> credentials, n |-> n]

\* An instance getInstance has returned.
ReadyManager(credentials) ==
    [NoManager EXCEPT !.pc = "ready",
                      !.auth = Some(Session(credentials, 1)),
                      !.clients = Some(Session(credentials, 1)),
                      !.derived = 1,
                      !.returned = <<Session(credentials, 1)>>]

Bootstrapped == [c \in Credentials |-> IF c = "c1" THEN ReadyManager(c) ELSE NoManager]

\* getAuth without its test of this.auth.
AuthMissingAlways(auth) == TRUE

\* if (!this.auth).
AuthMissing(auth) == ~IsSome(auth)

\* getAuth up to its await, or to its return.
GetAuthCall(m) ==
    IF AuthMissing(m.auth)
    THEN [m EXCEPT !.derived = @ + 1, !.awaiting = @ + 1]
    ELSE [m EXCEPT !.returned = Append(@, Get(m.auth))]

\* getInstance: new SheetManager(credentials), then getAuth is called.
GetInstance(c) ==
    /\ manager[c].pc = "none"
    /\ manager' = [manager EXCEPT ![c] = [GetAuthCall(@) EXCEPT !.pc = "bootstrap"]]
    /\ UNCHANGED <<sheets, file, create, entries, read>>

\* google.auth.getClient is answered: a client, nothing, or an error.  The
\* rest of getAuth runs, and the rest of getInstance when it was the caller.
GetClient(c) ==
    /\ manager[c].awaiting > 0
    /\ \E response \in {"client", "undefined", "error"} :
        LET m == manager[c]
            session == Session(c, m.derived - m.awaiting + 1)
            bootstrap == m.pc = "bootstrap"
        IN manager' = [manager EXCEPT ![c] =
            CASE response = "client" ->
                     [m EXCEPT !.auth = Some(session),
                               !.awaiting = @ - 1,
                               !.returned = Append(@, session),
                               !.clients = IF bootstrap THEN Some(session) ELSE @,
                               !.pc = IF bootstrap THEN "ready" ELSE @]
              [] response = "undefined" ->
                     [m EXCEPT !.auth = None,
                               !.awaiting = @ - 1,
                               !.error = "Auth is undefined",
                               !.pc = IF bootstrap THEN "failed" ELSE @]
              [] OTHER ->
                     [m EXCEPT !.awaiting = @ - 1,
                               !.error = "RemoteError",
                               !.pc = IF bootstrap THEN "failed" ELSE @]]
    /\ UNCHANGED <<sheets, file, create, entries, read>>

\* A caller that holds the instance calls getAuth.
GetAuth(c) ==
    /\ manager[c].pc = "ready"
    /\ Len(manager[c].returned) + manager[c].awaiting <= MaxGetAuth
    /\ manager' = [manager EXCEPT ![c] = GetAuthCall(@)]
    /\ UNCHANGED <<sheets, file, create, entries, read>>

----------------------------------------------------------------------------
\* The programs.

CreateNext ==
    \/ FilesCreate
    \/ CreateThrow
    \/ PermissionsMap
    \/ \E k \in DOMAIN create.status : PermissionsCreate(k)
    \/ CreateReturn

EntryNext ==
    \/ \E i \in DOMAIN entries : AddSheetsGet(i)
    \/ \E i \in DOMAIN entries : AddSheet(i)
    \/ \E i \in DOMAIN entries : GetSheetProperties(i)
    \/ \E i \in DOMAIN entries : UpdateSheetProperties(i)
    \/ \E i \in DOMAIN entries : AppendValues(i)
    \/ \E i \in DOMAIN entries : BatchUpdateValidation(i)

ExistingFile == Some([id |-> "doc0", name |-> "existing", mimeType |-> SpreadsheetMimeType])

\* addSheetValues, once or again, on a document that exists: a new one,
\* or one with a second sheet.
Init ==
    /\ sheets \in {FreshDocument, ExistingDocument}
    /\ file = ExistingFile
    /\ create = NoCreateCall
    /\ entries = <<>>
    /\ read = NoRead
    /\ manager = Bootstrapped

Next == AddSheetValues \/ EntryNext

Spec == Init /\ [][Next]_vars

\* createNewDocument alone, for every permissions array.
InitCreate ==
    /\ sheets = <<>>
    /\ file = None
    /\ create \in {CreateCall("test", p) : p \in PermissionArrays(MaxPermissions)}
    /\ entries = <<>>
    /\ read = NoRead
    /\ manager = Bootstrapped

SpecCreate == InitCreate /\ [][CreateNext]_vars

\* main of src/index.ts: createNewDocument("test", ...) and then
\* addSheetValues with one entry on the document it returned.
AddSheetValuesOne == AddSheetValuesOf({<<v>> : v \in Values})

InitMain ==
    /\ sheets = <<>>
    /\ file = None
    /\ create \in {CreateCall("test", p) : p \in {<<>>, <<Permission("writer")>>}}
    /\ entries = <<>>
    /\ read = NoRead
    /\ manager = Bootstrapped

NextMain == CreateNext \/ AddSheetValuesOne \/ EntryNext

SpecMain == InitMain /\ [][NextMain]_vars

\* The read operations on a document nothing modifies.
InitRead ==
    /\ sheets \in ReadDocuments(MaxReadSheets)
    /\ file = ExistingFile
    /\ create = NoCreateCall
    /\ entries = <<>>
    /\ read = NoRead
    /\ manager = Bootstrapped

NextRead ==
    \/ Read
    \/ GetSheetnameByIndex
    \/ GetSheetValues
    \/ GetSheetHeaders
    \/ GetColumn
    \/ GetRow

SpecRead == InitRead /\ [][NextRead]_vars

\* getInstance for each credentials, getAuth calls on the instances it
\* returned, and createNewDocument running on a returned instance.
InitAuth ==
    /\ sheets = <<>>
    /\ file = None
    /\ create \in {CreateCall("test", p) : p \in {<<>>, <<Permission("writer")>>}}
    /\ entries = <<>>
    /\ read = NoRead
    /\ manager = [c \in Credentials |-> NoManager]

CreateOnInstance == (\E c \in Credentials : manager[c].pc = "ready") /\ CreateNext

NextAuth ==
    \/ \E c \in Credentials : GetInstance(c)
    \/ \E c \in Credentials : GetClient(c)
    \/ \E c \in Credentials : GetAuth(c)
    \/ CreateOnInstance

SpecAuth == InitAuth /\ [][NextAuth]_vars

----------------------------------------------------------------------------
\* The properties.

\* The sheet of that title (the first one).
SheetTitled(name) == sheets[FindIndex(Titles(sheets), name) + 1]

HeaderRow(value) == [k \in DOMAIN value.headers |-> Str(value.headers[k])]

\* The callback failed on what the remote service did: a rejected request,
\* or a response without its sheet list, sheet, sheetId or gridProperties.
RemoteFault(e) ==
    \/ e.error \in {"RemoteError", "Sheets is undefined", "Sheet index is -1",
                    "Failed to get grid properties"}
    \/ e.error = "Sheet ID is undefined" /\ ~IsSome(e.sheetId)

Settled(e) == e.pc \in {"done", "failed"}

CallSize(c) == Cardinality({i \in DOMAIN entries : entries[i].call = c})

\* C1: the grid-resize request of every entry carries
\* rowCount = max(fetched rowCount, rows.length + 1) and
\* columnCount = max(fetched columnCount, headers.length), so neither
\* dimension is below what the sheet had when its properties were fetched.
C1_ResizeNeverShrinks ==
    \A i \in DOMAIN entries :
        LET e == entries[i] IN
        IsSome(e.update) =>
            LET fetched == Get(e.fetched)
                update == Get(e.update)
            IN /\ update.rowCount = Max(Get(fetched.rowCount), Len(e.value.rows) + 1)
               /\ update.columnCount =
                      Max(Get(fetched.columnCount), Len(e.value.headers))
               /\ update.rowCount >= Get(fetched.rowCount)
               /\ update.columnCount >= Get(fetched.columnCount)

\* C2: two addSheetValues calls in sequence for the same sheet, each of
\* one entry, the second with more rows: rowCount after call 2 >= rowCount
\* after call 1 >= rowCount before call 1.
C2_RowCountMonotonic ==
    \A i, j \in DOMAIN entries :
        LET first == entries[i]
            second == entries[j]
        IN (/\ first.call < second.call
            /\ CallSize(first.call) = 1 /\ CallSize(second.call) = 1
            /\ first.value.sheetName = second.value.sheetName
            /\ Len(second.value.rows) > Len(first.value.rows)
            /\ first.pc = "done" /\ second.pc = "done"
            /\ IsSome(first.before))
           => /\ Get(second.after) >= Get(first.after)
              /\ Get(first.after) >= Get(first.before)

\* C3: addSheetValues called alone with one entry whose sheet name does not
\* exist yet completes, and leaves a sheet of that name whose row 1 is the
\* headers and whose rows 2..rows.length+1 are the rows, in order.
C3_NewSheetHoldsPayload ==
    (/\ Len(entries) = 1
     /\ ~IsSome(entries[1].before)
     /\ Settled(entries[1])
     /\ ~RemoteFault(entries[1]))
    => /\ entries[1].pc = "done"
       /\ FindIndex(Titles(sheets), entries[1].value.sheetName) /= -1
       /\ LET data == SheetTitled(entries[1].value.sheetName).data
              value == entries[1].value
          IN /\ Len(data) = Len(value.rows) + 1
             /\ data[1] = HeaderRow(value)
             /\ \A r \in DOMAIN value.rows : data[r + 1] = value.rows[r]

\* C4: createNewDocument("test", []) and then addSheetValues with the one
\* entry {Sheet1, [a, b, c], [[x, 1, true]]} completes without error; the
\* header row is [a, b, c], row 2 is [x, 1, true], rowCount >= 2 and
\* columnCount >= 3.
C4_EndToEnd ==
    (/\ create.pc = "returned"
     /\ create.title = "test"
     /\ create.permissions = <<>>
     /\ Len(entries) = 1
     /\ entries[1].value =
            [sheetName |-> "Sheet1", headers |-> <<"a", "b", "c">>,
             rows |-> << <<Str("x"), Num("1"), Bool("TRUE")>> >>]
     /\ Settled(entries[1])
     /\ ~RemoteFault(entries[1]))
    => /\ entries[1].pc = "done"
       /\ entries[1].error = ""
       /\ LET sheet == SheetTitled("Sheet1") IN
          /\ Len(sheet.data) >= 2
          /\ sheet.data[1] = <<Str("a"), Str("b"), Str("c")>>
          /\ sheet.data[2] = <<Str("x"), Num("1"), Bool("TRUE")>>
          /\ sheet.rowCount >= 2
          /\ sheet.columnCount >= 3

\* The formula of a rule that requires `fn` of column `index`.
Requires(rule, fn, index) ==
    /\ rule.condition.type = "CUSTOM_FORMULA"
    /\ IsSome(rule.condition.values)
    /\ Get(rule.condition.values).fn = fn
    /\ Get(rule.condition.values).from = <<65 + index, 2>>
    /\ Get(rule.condition.values).to = 65 + index

\* C5: for every entry with at least one row and every column index below
\* headers.length, the rule for the column follows from the type of
\* rows[0][index] alone: string -> text, number -> numeric, boolean ->
\* TRUE or FALSE; an entry that ran alone has installed exactly these rules.
C5_RuleFromFirstRow ==
    \A i \in DOMAIN entries :
        LET e == entries[i]
            value == e.value
        IN (IsSome(e.requests) /\ value.rows /= <<>>) =>
            /\ Len(Get(e.requests)) = Len(value.headers)
            /\ \A index \in 0..(Len(value.headers) - 1) :
                   LET q == Get(e.requests)[index + 1]
                       first == value.rows[1]
                       type == IF index < Len(first) THEN first[index + 1].type
                               ELSE "undefined"
                   IN /\ q.range.startColumnIndex = index
                      /\ q.range.endColumnIndex = index + 1
                      /\ type = "string" => Requires(q.rule, "ISTEXT", index)
                      /\ type = "number" => Requires(q.rule, "ISNUMBER", index)
                      /\ type = "boolean" => Requires(q.rule, "OR_TRUE_FALSE", index)
            /\ (e.pc = "done" /\ Len(entries) = 1) =>
                   SheetTitled(value.sheetName).validation = Range(Get(e.requests))

\* An entry resolved whose second row has, in some column, another type
\* than its first row.
C5_Witness ==
    \E i \in DOMAIN entries :
        LET value == entries[i].value IN
        /\ entries[i].pc = "done"
        /\ Len(value.rows) >= 2
        /\ \E index \in 0..(Len(value.headers) - 1) :
               /\ index < Len(value.rows[1])
               /\ index < Len(value.rows[2])
               /\ value.rows[1][index + 1].type /= value.rows[2][index + 1].type
               /\ Requires(Get(entries[i].requests)[index + 1].rule, "ISTEXT", index)

\* The first row has no string, number or boolean at column `index`.
Unrecognized(value, index) ==
    \/ value.rows = <<>>
    \/ index >= Len(value.rows[1])

\* C6: when the first row has no value of a recognized type at a column, or
\* there are no rows, addSheetValues raises no error, issues no validation
\* request for that column and still appends [headers, ...rows].
C6_NoRuleNoError ==
    \A i \in DOMAIN entries :
        LET e == entries[i]
            value == e.value
            columns == {index \in 0..(Len(value.headers) - 1) :
                            Unrecognized(value, index)}
        IN (/\ columns /= {}
            /\ IsSome(e.update)
            /\ Settled(e)
            /\ ~RemoteFault(e))
           => /\ e.pc = "done"
              /\ \E k \in DOMAIN e.log : e.log[k] = "append"
              /\ \A index \in columns :
                     \A k \in DOMAIN Get(e.requests) :
                         Get(e.requests)[k].range.startColumnIndex /= index

\* C7: getSheetValuesByFilter returns undefined when the sheet name is not
\* resolved, an empty sequence when no cell of the column equals the
\* filter, and otherwise exactly one row: the sheet row at the position of
\* the first cell of the column that equals the filter.
C7_FilterResult ==
    (read.op = "getSheetValuesByFilter" /\ read.pc = "returned") =>
        IF ~IsSome(read.sheetName) THEN read.result = None
        ELSE LET data == SheetTitled(Get(read.sheetName)).data
                 column == ColumnNumber(read.col)
                 matches == {r \in DOMAIN data :
                                /\ column <= Len(data[r])
                                /\ data[r][column] = Str(read.filter)}
             IN IF matches = {} THEN read.result = Some(<<>>)
                ELSE LET position == CHOOSE r \in matches : \A q \in matches : r <= q
                         row == data[position]
                     IN /\ IsSome(read.result)
                        /\ Len(Get(read.result)) = 1
                        /\ \A c \in DOMAIN Get(read.result)[1] :
                               /\ c <= Len(row)
                               /\ Get(read.result)[1][c].v = row[c].v

\* C8: with a sheet list in the metadata, getSheetnameByIndex returns the
\* title at the index when 0 <= index < number of sheets; for any other
\* index it fails with the TypeError of the indexing, which its callers
\* propagate without a values request.
C8_SheetnameByIndex ==
    (read.pc \notin {"idle", "name"} /\ IsSome(read.metadata)) =>
        IF 0 <= read.sheetIndex /\ read.sheetIndex < Len(sheets)
        THEN /\ read.error /= "TypeError"
             /\ read.sheetName = Some(sheets[read.sheetIndex + 1].title)
             /\ read.op = "getSheetnameByIndex" =>
                    /\ read.pc = "returned"
                    /\ read.result = Some(sheets[read.sheetIndex + 1].title)
        ELSE /\ read.pc = "failed"
             /\ read.error = "TypeError"
             /\ read.log = <<>>
             /\ read.result = None

\* getSheetValues, getSheetHeaders or getSheetValuesByFilter failed on an
\* index past the last sheet.
C8_Witness ==
    /\ read.op \in {"getSheetValues", "getSheetHeaders", "getSheetValuesByFilter"}
    /\ read.sheetIndex >= Len(sheets)
    /\ IsSome(read.metadata)
    /\ read.pc = "failed"
    /\ read.error = "TypeError"

\* C9: every permissions.create request has transferOwnership set exactly
\* when the role of its grant is "owner", and sendNotificationEmail false.
C9_TransferOwnership ==
    \A k \in DOMAIN create.requests :
        /\ create.requests[k].requestBody = create.permissions[k]
        /\ create.requests[k].transferOwnership
               <=> (create.permissions[k].role = "owner")
        /\ create.requests[k].sendNotificationEmail = FALSE

\* Requests issued for two grants of which exactly one is an owner grant.
C9_Witness ==
    /\ Len(create.requests) = 2
    /\ Cardinality({k \in DOMAIN create.requests :
                       create.permissions[k].role = "owner"}) = 1
    /\ \E k \in DOMAIN create.requests : create.requests[k].transferOwnership
    /\ \E k \in DOMAIN create.requests : ~create.requests[k].transferOwnership

\* C10: without an id createNewDocument fails with "Document id is
\* undefined" having issued no permission request; with an id it issues
\* one request per grant, each for that id; with no grants it does not fail
\* and returns the file of that, non-empty, id.
C10_PermissionsAfterId ==
    /\ create.requests /= <<>> => IsSome(create.id)
    /\ (create.pc /= "start" /\ ~IsSome(create.id)) =>
           /\ create.pc \in {"created", "failed"}
           /\ create.requests = <<>>
           /\ create.pc = "failed" =>
                  create.error \in {"Document id is undefined", "RemoteError"}
    /\ (IsSome(create.id) /\ create.pc /= "created") =>
           /\ Len(create.requests) = Len(create.permissions)
           /\ \A k \in DOMAIN create.requests :
                  /\ create.requests[k].fileId = Get(create.id)
                  /\ create.requests[k].requestBody = create.permissions[k]
    /\ (IsSome(create.id) /\ create.permissions = <<>>) => create.pc /= "failed"
    /\ create.pc = "returned" =>
           /\ IsSome(create.result)
           /\ Get(create.result).id = Get(create.id)
           /\ Get(create.id) /= ""

\* createNewDocument returned after two permission requests, one per grant.
C10_Witness ==
    /\ create.pc = "returned"
    /\ Len(create.requests) = 2
    /\ \A k \in DOMAIN create.status : create.status[k] = "ok"

\* C11: on every instance the session slot is assigned at most once: getClient
\* is invoked at most once, a session once set is never replaced, the
\* clients are bound to it, and every getAuth call returns that session,
\* whatever getAuth calls and other operations interleave.
C11_SessionAssignedOnce ==
    /\ [](\A c \in Credentials :
            LET m == manager[c] IN
            /\ m.derived <= 1
            /\ m.pc = "ready" => IsSome(m.auth) /\ m.clients = m.auth
            /\ \A k \in DOMAIN m.returned :
                   IsSome(m.auth) /\ m.returned[k] = Get(m.auth))
    /\ [][\A c \in Credentials :
            IsSome(manager[c].auth) => manager'[c].auth = manager[c].auth]_vars

\* An instance answered getAuth three times (once within getInstance) while
\* createNewDocument had its permission requests in flight.
C11_Witness ==
    \E c \in Credentials :
        /\ manager[c].pc = "ready"
        /\ Len(manager[c].returned) = 3
        /\ create.pc = "granting"

\* The next step of callback i, whichever request it awaits.
EntryStep(i) ==
    \/ AddSheetsGet(i)
    \/ AddSheet(i)
    \/ GetSheetProperties(i)
    \/ UpdateSheetProperties(i)
    \/ AppendValues(i)
    \/ BatchUpdateValidation(i)

C13_CheckThenCreate ==
    /\ [](\A i \in DOMAIN entries :
            entries[i].absent =>
                \/ entries[i].pc = "addSheet"
                \/ \E k \in DOMAIN entries[i].log : entries[i].log[k] = "addSheet")
    /\ [][\A i \in DOMAIN entries :
            entries[i].pc = "addSheets" /\ entries'[i] /= entries[i] =>
                /\ sheets' = sheets
                /\ entries'[i].absent <=>
                       /\ entries'[i].pc = "addSheet"
                       /\ FindIndex(Titles(sheets), entries[i].value.sheetName) = -1]_vars

\* Two entries of one call with the same sheet name both observed it absent
\* and both have their add-sheet request in flight.
C13_Witness ==
    /\ Len(entries) = 2
    /\ entries[1].call = entries[2].call
    /\ entries[1].value.sheetName = entries[2].value.sheetName
    /\ entries[1].absent /\ entries[2].absent
    /\ entries[1].pc = "addSheet" /\ entries[2].pc = "addSheet"

\* The requests of one entry, in the order of the source.
RequestOrder(absent) ==
    <<"get">> \o (IF absent THEN <<"addSheet">> ELSE <<>>) \o
    <<"getProperties", "updateSheetProperties", "append", "setDataValidation">>

\* The request a callback awaits at each of its positions.
InFlight(pc) ==
    CASE pc = "addSheets" -> "get"
      [] pc = "addSheet" -> "addSheet"
      [] pc = "getProperties" -> "getProperties"
      [] pc = "update" -> "updateSheetProperties"
      [] pc = "append" -> "append"
      [] pc = "validate" -> "setDataValidation"

IsPrefix(s, t) == Len(s) <= Len(t) /\ \A k \in DOMAIN s : s[k] = t[k]

\* C14: within one entry the requests are issued in the order sheet-list
\* fetch, add-sheet if the name was absent, properties fetch, resize,
\* append, validation: the answered requests are a prefix of that order,
\* the request in flight is the next of it, each step answers exactly the
\* request in flight, and a failed entry issues nothing more.
C14_RequestOrder ==
    /\ [](\A i \in DOMAIN entries :
            LET e == entries[i]
                order == RequestOrder(e.absent)
            IN /\ IsPrefix(e.log, order)
               /\ e.pc = "done" => e.log = order
               /\ e.pc = "failed" => e.log /= <<>>
               /\ e.pc \notin {"done", "failed"} =>
                      /\ Len(e.log) < Len(order)
                      /\ InFlight(e.pc) = RequestOrder(e.pc = "addSheet" \/ e.absent)[Len(e.log) + 1])
    /\ [][\A i \in DOMAIN entries :
            entries'[i] /= entries[i] =>
                /\ entries[i].pc \notin {"done", "failed"}
                /\ entries'[i].log = Append(entries[i].log, InFlight(entries[i].pc))]_vars

\* An entry whose sheet was absent resolved after its six requests, and
\* an entry of the same call failed at its resize with nothing appended.
C14_Witness ==
    /\ Len(entries) = 2
    /\ entries[1].pc = "done" /\ entries[1].absent /\ Len(entries[1].log) = 6
    /\ entries[2].pc = "failed"
    /\ entries[2].log = <<"get", "getProperties", "updateSheetProperties">>

\* C15: the missing-data error for the sheet identifier is raised only when
\* the identifier is absent from the response: an entry whose sheet carries
\* an identifier, the identifier 0 included, raises no such error, and once
\* its properties are fetched it goes on to the resize.
C15_SheetIdPresent ==
    \A i \in DOMAIN entries :
        IsSome(entries[i].sheetId) =>
            /\ entries[i].error /= "Sheet ID is undefined"
            /\ entries[i].error = "Failed to get grid properties"
               \/ \E k \in DOMAIN entries[i].log : entries[i].log[k] = "getProperties"
                      /\ (k < Len(entries[i].log) \/ entries[i].pc = "update")

====
